---------------------------- MODULE Spec2Model ----------------------------
(***************************************************************************)
(* Model of the framed serial protocol of CristalLiq-serial (frame.h,      *)
(* frame.cpp): the receive state machine SerialProtocol::receiveFrame, the *)
(* encoder SerialProtocol::sendFrame and the two fixed buffers they write. *)
(*                                                                         *)
(* Bytes are the integers 0..255.  A buffer char x[MAX_PROTOCOL_MESSAGE+1] *)
(* is a function on 0..MAX_PROTOCOL_MESSAGE, indexed as in the source.     *)
(***************************************************************************)
EXTENDS Integers, Sequences, FiniteSets, TLC

VARIABLES
    machState,      \* [Instances -> byte]  SerialProtocol::machState
    receivedChars,  \* [Instances -> buffer] SerialProtocol::receivedChars
    sendChars,      \* [Instances -> buffer] SerialProtocol::sendChars
    ndx,            \* the function-static cursor of receiveFrame (one for all instances)
    stray,          \* TRUE once a store landed outside the SerialProtocol object
    serialIn,       \* bytes Serial.available() counts and Serial.read() returns
    serialOut,      \* the bytes of the last Serial.write(sendChars)
    wire,           \* bytes transmitted by the peer and not yet in the Serial input
    message,        \* the owner's string: the argument of the last sendFrame call
    log,            \* [Instances -> Seq(record)] one record per byte read since construction or the owner's last reset
    lastOp,         \* the last call made on an object, and whether a receiveFrame call read nothing
    nEvents,        \* single bytes arrived so far (bounded by MaxEvents or MaxSingles)
    nRuns,          \* bursts so far (bounded by MaxRuns); in SpecTable, applications of removeAccentMarker
    nResets         \* resets by the owner so far (bounded by MaxResets)

vars == <<machState, receivedChars, sendChars, ndx, stray, serialIn, serialOut, wire, message, log, lastOp, nEvents, nRuns, nResets>>

----------------------------------------------------------------------------
\* frame.h

MAX_STRING == 80

MAX_PROTOCOL_MESSAGE == MAX_STRING + 4

\* enum machineState {START, RECEIVING, ESCAPE, RECEIVED}
START == 0

RECEIVING == 1

ESCAPE == 2

RECEIVED == 3

\* the character literals of the two switch statements: '<', '>', '\\', '\0'
LT == 60

GT == 62

BSL == 92

NUL == 0

Reserved == {LT, GT, BSL}

\* the range of `byte` and of `unsigned char`
ByteMod == 256

BufIndex == 0..MAX_PROTOCOL_MESSAGE

\* The bytes of the C string held in a buffer: those before the first '\0'.
\* A buffer holding no '\0' has no terminated string in it; the whole content is returned.
StrLen(buf) ==
    IF \E i \in BufIndex : buf[i] = NUL
      THEN CHOOSE i \in BufIndex : buf[i] = NUL /\ \A j \in 0..(i - 1) : buf[j] # NUL
      ELSE MAX_PROTOCOL_MESSAGE + 1

CStr(buf) == [k \in 1..StrLen(buf) |-> buf[k - 1]]

Terminated(buf) == \E i \in BufIndex : buf[i] = NUL

----------------------------------------------------------------------------
\* Bounds of the model

\* the two SerialProtocol objects a sketch may declare; Spec drives the first
Instances == {1, 2}

\* single bytes the peer may put on the line: '<', '>', '\\', 'a'
Alphabet == {LT, GT, BSL, 97}

\* length of a burst of ordinary bytes (one more than the buffer holds)
RunLen == 85

MaxRuns == 3

MaxEvents == 5

\* single bytes between the bursts of SpecBurst
MaxSingles == 2

MaxResets == 1

\* what the storage of a buffer holds before anything is written to it
InitFill == {0, 255}

\* a burst: RunLen times the ordinary byte 'x'
Burst == [i \in 1..RunLen |-> 120]

----------------------------------------------------------------------------
\* frame.cpp: receiveFrame

\* The part of the program state one instance's receiveFrame call works on.
Recv(self) == [machState |-> machState[self], ndx |-> ndx, receivedChars |-> receivedChars[self], sendChars |-> sendChars[self], stray |-> stray]

\* What a store through receivedChars[i] with i past the end of the object may do.
\* "memory": it lands in storage the model does not hold.
\* "cursor": it lands on the static cursor ndx itself.
OobOutcomes == {"memory", "cursor"}

\* receivedChars[i] = v.  receivedChars is followed in the object by sendChars
\* (frame.h:39-43), both arrays of char: a store at MAX_PROTOCOL_MESSAGE+1+k,
\* k <= MAX_PROTOCOL_MESSAGE, lands in sendChars[k]; a store further out leaves the
\* object and has no defined effect: `oob` names the outcome.
Store(st, i, v, oob) ==
    IF i <= MAX_PROTOCOL_MESSAGE
      THEN [st EXCEPT !.receivedChars[i] = v]
      ELSE IF i - (MAX_PROTOCOL_MESSAGE + 1) <= MAX_PROTOCOL_MESSAGE
             THEN [st EXCEPT !.sendChars[i - (MAX_PROTOCOL_MESSAGE + 1)] = v]
             ELSE IF oob = "cursor"
                    THEN [st EXCEPT !.ndx = v, !.stray = TRUE]
                    ELSE [st EXCEPT !.stray = TRUE]

\* receivedChars[ndx++] = rc, ndx a byte
StoreNext(st, rc, oob) == Store([st EXCEPT !.ndx = (st.ndx + 1) % ByteMod], st.ndx, rc, oob)

\* Variant of Terminate: the frame is closed without storing the '\0'.
TerminateNoNul(st, oob) == [st EXCEPT !.ndx = 0]

\* case '>' of RECEIVING: receivedChars[ndx] = '\0'; ndx = 0
Terminate(st, oob) == [Store(st, st.ndx, NUL, oob) EXCEPT !.ndx = 0]

\* Variant of CaseStart: '<' starts a frame without zeroing the cursor.
CaseStartKeepsNdx(st, rc) ==
    IF rc = LT THEN [st EXCEPT !.machState = RECEIVING]
               ELSE [st EXCEPT !.machState = START]

\* case START: '<' zeroes the cursor and starts a frame; anything else is skipped.
CaseStart(st, rc) ==
    IF rc = LT THEN [st EXCEPT !.ndx = 0, !.machState = RECEIVING]
               ELSE [st EXCEPT !.machState = START]

\* Variant of CaseReceiving: '<' inside a frame does not zero the cursor.
CaseReceivingNoRestart(st, rc, oob) ==
    CASE rc = LT  -> [st EXCEPT !.machState = RECEIVING]
      [] rc = GT  -> Terminate([st EXCEPT !.machState = RECEIVED], oob)
      [] rc = BSL -> [st EXCEPT !.machState = ESCAPE]
      [] OTHER    -> StoreNext([st EXCEPT !.machState = RECEIVING], rc, oob)

\* case RECEIVING
CaseReceiving(st, rc, oob) ==
    CASE rc = LT  -> [st EXCEPT !.ndx = 0, !.machState = RECEIVING]
      [] rc = GT  -> Terminate([st EXCEPT !.machState = RECEIVED], oob)
      [] rc = BSL -> [st EXCEPT !.machState = ESCAPE]
      [] OTHER    -> StoreNext([st EXCEPT !.machState = RECEIVING], rc, oob)

\* Variant of CaseEscape: the byte after the escape byte is stored whatever it is.
CaseEscapeAnyByte(st, rc, oob) == StoreNext([st EXCEPT !.machState = RECEIVING], rc, oob)

\* Variant of CaseEscape: '>' ends the frame even after the escape byte.
CaseEscapeEndsFrame(st, rc, oob) ==
    IF rc = GT THEN Terminate([st EXCEPT !.machState = RECEIVED], oob)
    ELSE IF rc \in Reserved THEN StoreNext([st EXCEPT !.machState = RECEIVING], rc, oob)
                            ELSE [st EXCEPT !.machState = RECEIVING]

\* case ESCAPE
CaseEscape(st, rc, oob) ==
    IF rc \in Reserved THEN StoreNext([st EXCEPT !.machState = RECEIVING], rc, oob)
                       ELSE [st EXCEPT !.machState = RECEIVING]

\* switch (machState): the body of the while loop for the byte rc just read.
Switch(st, rc, oob) ==
    CASE st.machState = START     -> CaseStart(st, rc)
      [] st.machState = RECEIVING -> CaseReceiving(st, rc, oob)
      [] st.machState = ESCAPE    -> CaseEscape(st, rc, oob)
      [] OTHER                    -> st

\* The record of one iteration kept in the log: the byte read, the state and
\* cursor before and after, and whether the receive buffer is as it was.
Entry(st, rc, nx) == [rc |-> rc, from |-> st.machState, to |-> nx.machState, ndx0 |-> st.ndx, ndx1 |-> nx.ndx, same |-> nx.receivedChars = st.receivedChars]

\* Variant of StaticNdx: the cursor is an automatic variable, zero at every call.
AutoNdx(prev) == 0

\* static byte ndx = 0: the cursor a call starts with is the one the previous
\* call (of any instance) left.
StaticNdx(prev) == prev

\* Variant of LoopCond: the loop reads as long as bytes are available.
LoopCondAnyState(st, available) == available > 0

\* while (Serial.available() > 0 && machState != RECEIVED)
LoopCond(st, available) == available > 0 /\ st.machState # RECEIVED

\* Variant of Iterate: the loop reads on after a frame is complete, a completed
\* receiver taking the byte as START does.
IterateAutoRestart(st, rc, available, oob) ==
    IF available > 0
      THEN CHOOSE r \in {[st |-> nx, log |-> <<Entry(st, rc, nx)>>] :
                           nx \in {Switch(IF st.machState = RECEIVED THEN [st EXCEPT !.machState = START] ELSE st, rc, oob)}} : TRUE
      ELSE [st |-> st, log |-> <<>>]

\* rc = Serial.read(); switch ...: one pass through the loop, if its condition holds.
Iterate(st, rc, available, oob) ==
    IF LoopCond(st, available)
      THEN CHOOSE r \in {[st |-> nx, log |-> <<Entry(st, rc, nx)>>] : nx \in {Switch(st, rc, oob)}} : TRUE
      ELSE [st |-> st, log |-> <<>>]

\* The while loop run on in[lo..hi], the bytes Serial.read() returns in order:
\* the state reached and the log of the iterations made.  The loop has no exit
\* but its condition, so running it on in[lo..hi] is running it on the first
\* half (result a) and then, from a.st, on the second (result b).  The halving
\* and the bound names a, b only keep the evaluation shallow.
RECURSIVE ReceiveLoop(_, _, _, _, _)
ReceiveLoop(st, in, lo, hi, oob) ==
    IF lo > hi THEN [st |-> st, log |-> <<>>]
    ELSE IF lo = hi THEN Iterate(st, in[lo], Len(in) - lo + 1, oob)
    ELSE CHOOSE r \in UNION { { [st |-> b.st, log |-> a.log \o b.log] :
                                  b \in {ReceiveLoop(a.st, in, ((lo + hi) \div 2) + 1, hi, oob)} } :
                                a \in {ReceiveLoop(st, in, lo, (lo + hi) \div 2, oob)} } : TRUE

\* void SerialProtocol::receiveFrame()
receiveFrame(self) ==
    \E oob \in OobOutcomes :
      \E r \in {ReceiveLoop([Recv(self) EXCEPT !.ndx = StaticNdx(ndx)], serialIn, 1, Len(serialIn), oob)} :
          /\ machState' = [machState EXCEPT ![self] = r.st.machState]
          /\ receivedChars' = [receivedChars EXCEPT ![self] = r.st.receivedChars]
          /\ sendChars' = [sendChars EXCEPT ![self] = r.st.sendChars]
          /\ ndx' = r.st.ndx
          /\ stray' = r.st.stray
          /\ log' = [log EXCEPT ![self] = @ \o r.log]
          /\ serialIn' = SubSeq(serialIn, Len(r.log) + 1, Len(serialIn))
          /\ lastOp' = [op |-> "receiveFrame", self |-> self, idle |-> Len(r.log) = 0]
          /\ UNCHANGED <<serialOut, wire, message, nEvents, nRuns, nResets>>

----------------------------------------------------------------------------
\* frame.cpp: sendFrame

\* sendChars[i] = v.  No store of sendFrame is meant to leave the buffer; one
\* that does is recorded in `out`.
Put(sb, i, v) == IF i <= MAX_PROTOCOL_MESSAGE THEN [sb EXCEPT !.buf[i] = v] ELSE [sb EXCEPT !.out = TRUE]

\* *message, for message pointing at element p of the string msg
Deref(msg, p) == IF p <= Len(msg) THEN msg[p] ELSE NUL

\* Variant of SendCond: the loop leaves no room for '>' and '\0'.
SendCondNoRoom(msg, p, i) == Deref(msg, p) # NUL /\ i < MAX_PROTOCOL_MESSAGE + 1

\* while( *message != '\0' && i < (MAX_PROTOCOL_MESSAGE - 1) )
SendCond(msg, p, i) == Deref(msg, p) # NUL /\ i < MAX_PROTOCOL_MESSAGE - 1

\* The switch in the loop body, for message at element p and output index i.
\* A reserved byte stores the escape byte; if that filled the buffer up to the
\* room of '>' and '\0' the loop continues without storing the byte itself and
\* without advancing message, otherwise control falls into the default case,
\* which stores the byte and advances.
SendSwitch(msg, p, sb, i) ==
    IF Deref(msg, p) \in Reserved
      THEN IF i + 1 = MAX_PROTOCOL_MESSAGE - 1
             THEN [p |-> p, sb |-> Put(sb, i, BSL), i |-> i + 1]
             ELSE [p |-> p + 1, sb |-> Put(Put(sb, i, BSL), i + 1, Deref(msg, p)), i |-> i + 2]
      ELSE [p |-> p + 1, sb |-> Put(sb, i, Deref(msg, p)), i |-> i + 1]

\* One pass of the while loop, if its condition holds.
SendPass(msg, s) == IF SendCond(msg, s.p, s.i) THEN SendSwitch(msg, s.p, s.sb, s.i) ELSE s

\* n passes of the while loop from s = [p, sb, i], as n \div 2 passes (result a)
\* and then the rest; the halving only keeps the evaluation shallow.  Once the
\* condition fails no pass changes anything.
RECURSIVE SendPasses(_, _, _)
SendPasses(msg, s, n) ==
    IF n = 0 \/ ~SendCond(msg, s.p, s.i) THEN s
    ELSE IF n = 1 THEN SendPass(msg, s)
    ELSE CHOOSE r \in {SendPasses(msg, a, n - (n \div 2)) : a \in {SendPasses(msg, s, n \div 2)}} : TRUE

\* The while loop of sendFrame.  Every pass advances i and the loop ends
\* before i reaches MAX_PROTOCOL_MESSAGE - 1, so MAX_PROTOCOL_MESSAGE passes
\* run it to its end.
SendLoop(msg, p, sb, i) == SendPasses(msg, [p |-> p, sb |-> sb, i |-> i], MAX_PROTOCOL_MESSAGE)

\* The stores of sendFrame: '<' at 0, the loop, then '>' and '\0'.
Encode(msg, buf) ==
    CHOOSE e \in {[sb |-> Put(Put(r.sb, r.i, GT), r.i + 1, NUL), i |-> r.i + 1, p |-> r.p] :
                    r \in {SendLoop(msg, 1, Put([buf |-> buf, out |-> FALSE], 0, LT), 1)}} : TRUE

\* Variant of sendFrame: the sender re-arms the receiver of its object.
sendFrameRearms(self, msg) ==
    \E e \in {Encode(msg, sendChars[self])} :
        /\ sendChars' = [sendChars EXCEPT ![self] = e.sb.buf]
        /\ stray' = (stray \/ e.sb.out)
        /\ serialOut' = CStr(e.sb.buf)
        /\ message' = msg
        /\ lastOp' = [op |-> "sendFrame", self |-> self, idle |-> FALSE]
        /\ machState' = [machState EXCEPT ![self] = START]
        /\ UNCHANGED <<receivedChars, ndx, serialIn, log>>

\* Variant of sendFrame: the frame is built in the one buffer the receiver fills.
sendFrameSharedBuffer(self, msg) ==
    \E e \in {Encode(msg, receivedChars[self])} :
        /\ sendChars' = [sendChars EXCEPT ![self] = e.sb.buf]
        /\ receivedChars' = [receivedChars EXCEPT ![self] = e.sb.buf]
        /\ stray' = (stray \/ e.sb.out)
        /\ serialOut' = CStr(e.sb.buf)
        /\ message' = msg
        /\ lastOp' = [op |-> "sendFrame", self |-> self, idle |-> FALSE]
        /\ UNCHANGED <<machState, ndx, serialIn, log>>

\* void SerialProtocol::sendFrame(char* message); Serial.write(sendChars) writes
\* the C string in the buffer.
sendFrame(self, msg) ==
    \E e \in {Encode(msg, sendChars[self])} :
        /\ sendChars' = [sendChars EXCEPT ![self] = e.sb.buf]
        /\ stray' = (stray \/ e.sb.out)
        /\ serialOut' = CStr(e.sb.buf)
        /\ message' = msg
        /\ lastOp' = [op |-> "sendFrame", self |-> self, idle |-> FALSE]
        /\ UNCHANGED <<machState, receivedChars, ndx, serialIn, log>>

----------------------------------------------------------------------------
\* The owner of the object and the serial line (the sketch and the peer are not
\* part of the sources; machState is a public field, frame.h:35).

\* Variant of Reset: the owner's reset leaves the receiver inside a frame.
ResetToReceiving(self) ==
    /\ machState' = [machState EXCEPT ![self] = RECEIVING]
    /\ log' = [log EXCEPT ![self] = <<>>]
    /\ lastOp' = [op |-> "reset", self |-> self, idle |-> FALSE]
    /\ UNCHANGED <<receivedChars, sendChars, ndx, stray, serialIn, serialOut, wire, message>>

\* The owner starts the next frame: machState = START.  The cursor is a static
\* local of receiveFrame and out of the owner's reach; the first '<' zeroes it.
\* The log restarts with the reset.
Reset(self) ==
    /\ machState' = [machState EXCEPT ![self] = START]
    /\ log' = [log EXCEPT ![self] = <<>>]
    /\ lastOp' = [op |-> "reset", self |-> self, idle |-> FALSE]
    /\ UNCHANGED <<receivedChars, sendChars, ndx, stray, serialIn, serialOut, wire, message>>

\* The state after construction: SerialProtocol() : machState(START); the
\* buffers are not initialised (their storage holds `fill`); static ndx = 0.
Constructed(fill) ==
    /\ machState = [i \in Instances |-> START]
    /\ receivedChars = [i \in Instances |-> [k \in BufIndex |-> fill]]
    /\ sendChars = [i \in Instances |-> [k \in BufIndex |-> fill]]
    /\ ndx = 0
    /\ stray = FALSE
    /\ serialIn = <<>>
    /\ serialOut = <<>>
    /\ log = [i \in Instances |-> <<>>]
    /\ lastOp = [op |-> "construct", self |-> 0, idle |-> FALSE]
    /\ nEvents = 0
    /\ nRuns = 0
    /\ nResets = 0

----------------------------------------------------------------------------
\* Spec: one SerialProtocol object polled by its owner while the peer sends
\* arbitrary single bytes; the owner may reset the receiver at any moment.

Init ==
    /\ \E fill \in InitFill : Constructed(fill)
    /\ wire = <<>>
    /\ message = <<>>

\* one byte arrives in the Serial input
Arrive(b) ==
    /\ serialIn' = Append(serialIn, b)
    /\ nEvents' = nEvents + 1
    /\ UNCHANGED <<machState, receivedChars, sendChars, ndx, stray, serialOut, wire, message, log, lastOp, nRuns, nResets>>

ArriveByte == \E b \in Alphabet : nEvents < MaxEvents /\ Arrive(b)

\* loop() polls the receiver
Poll == receiveFrame(1)

OwnerReset ==
    /\ nResets < MaxResets
    /\ Reset(1)
    /\ nResets' = nResets + 1
    /\ UNCHANGED <<nEvents, nRuns>>

Next ==
    \/ ArriveByte
    \/ Poll
    \/ OwnerReset

Spec == Init /\ [][Next]_vars

----------------------------------------------------------------------------
\* SpecBurst: the same object fed bursts longer than the receive buffer, with a
\* few single bytes between them.

\* a burst of ordinary bytes arrives
ArriveBurst ==
    /\ nRuns < MaxRuns
    /\ serialIn' = serialIn \o Burst
    /\ nRuns' = nRuns + 1
    /\ UNCHANGED <<machState, receivedChars, sendChars, ndx, stray, serialOut, wire, message, log, lastOp, nEvents, nResets>>

ArriveSingle == \E b \in Alphabet : nEvents < MaxSingles /\ Arrive(b)

NextBurst ==
    \/ ArriveSingle
    \/ ArriveBurst
    \/ Poll

SpecBurst == Init /\ [][NextBurst]_vars

----------------------------------------------------------------------------
\* SpecSend: one sendFrame call on a fresh object, for messages of every
\* length up to past the buffer, ordinary bytes with reserved bytes at either end.

\* longest run of ordinary bytes in a message (two more than the buffer holds)
MaxPad == 86

\* n times the ordinary byte 'a'
Pad(n) == [i \in 1..n |-> 97]

\* what a message starts with: nothing, or one reserved byte
Heads == {<<>>, <<LT>>, <<BSL>>}

\* what a message ends with: up to two of '<', '>', '\\', 'b'
Tails == UNION {[1..n -> {LT, GT, BSL, 98}] : n \in 0..2}

SendMessages == {h \o Pad(n) \o t : h \in Heads, n \in 0..MaxPad, t \in Tails}

SendOnce ==
    \E msg \in SendMessages :
        /\ lastOp.op = "construct"
        /\ sendFrame(1, msg)
        /\ UNCHANGED <<wire, nEvents, nRuns, nResets>>

NextSend == SendOnce

SpecSend == Init /\ [][NextSend]_vars

----------------------------------------------------------------------------
\* SpecRT: the frame one sendFrame call writes travels back, split into chunks,
\* to the receiver of the same object, which is polled between the chunks.

\* lengths of the run of ordinary bytes in the messages of SpecRT: short ones,
\* and those around the longest payload sendFrame can frame
RTPads == {0, 1} \cup ((MAX_PROTOCOL_MESSAGE - 4)..(MAX_PROTOCOL_MESSAGE - 1))

\* what a message of SpecRT ends with: nothing or one of '<', '>', '\\', 'b'
RTTails == UNION {[1..n -> {LT, GT, BSL, 98}] : n \in 0..1}

RTMessages == {Pad(n) \o t : n \in RTPads, t \in RTTails}

\* a chunk is at most MaxChunk bytes, or all that is left
MaxChunk == 3

\* chunks are counted in nEvents up to ChunkCap
ChunkCap == 2

Transmit ==
    \E msg \in RTMessages :
        /\ lastOp.op = "construct"
        /\ sendFrame(1, msg)
        /\ wire' = serialOut'
        /\ UNCHANGED <<nEvents, nRuns, nResets>>

\* the next k bytes of the frame arrive, once the previous chunk has been polled
Deliver ==
    \E k \in (1..MaxChunk) \cup {Len(wire)} :
        /\ 1 <= k /\ k <= Len(wire)
        /\ serialIn = <<>>
        /\ serialIn' = SubSeq(wire, 1, k)
        /\ wire' = SubSeq(wire, k + 1, Len(wire))
        /\ nEvents' = IF nEvents < ChunkCap THEN nEvents + 1 ELSE nEvents
        /\ UNCHANGED <<machState, receivedChars, sendChars, ndx, stray, serialOut, message, log, lastOp, nRuns, nResets>>

NextRT ==
    \/ Transmit
    \/ Deliver
    \/ Poll

SpecRT == Init /\ [][NextRT]_vars

----------------------------------------------------------------------------
\* Notions the properties are stated in

\* the bytes read by an instance since construction or its last reset, in order
Fed(self) == [j \in 1..Len(log[self]) |-> log[self][j].rc]

\* the wire format of a payload: every reserved byte preceded by the escape byte
EscapedByte(c) == IF c \in Reserved THEN <<BSL, c>> ELSE <<c>>

RECURSIVE Escaped(_)
Escaped(P) ==
    IF Len(P) = 0 THEN <<>>
    ELSE IF Len(P) = 1 THEN EscapedByte(P[1])
    ELSE Escaped(SubSeq(P, 1, Len(P) \div 2)) \o Escaped(SubSeq(P, (Len(P) \div 2) + 1, Len(P)))

\* a well-formed frame: '<' escaped(P) '>'
Frame(P) == <<LT>> \o Escaped(P) \o <<GT>>

HasReserved(P) == \E k \in 1..Len(P) : P[k] \in Reserved

\* longest payload of the frames looked for in the input of Spec
MaxPayload == 2

Payloads == UNION {[1..n -> Alphabet] : n \in 0..MaxPayload}

\* the bytes read by instance 1 end with the sequence F
FedEndsWith(F) == Len(log[1]) >= Len(F) /\ SubSeq(Fed(1), Len(log[1]) - Len(F) + 1, Len(log[1])) = F

\* the last byte read by instance 1 is '>', as after any frame
ReadEndMarker == Len(log[1]) > 0 /\ log[1][Len(log[1])].rc = GT

\* the last Len(P) bytes of the string s are P
EndsWith(s, P) == Len(s) >= Len(P) /\ SubSeq(s, Len(s) - Len(P) + 1, Len(s)) = P

----------------------------------------------------------------------------
\* C1 (SpecBurst): the write cursor never exceeds MAX_PROTOCOL_MESSAGE, the last
\* index of receivedChars, and no store of receiveFrame (a payload byte or the
\* terminator) is made at an index past it, whatever bytes arrive.
C1_CursorStaysInBuffer ==
    /\ ndx <= MAX_PROTOCOL_MESSAGE
    /\ ~stray
    /\ \A j \in 1..Len(log[1]) : log[1][j].ndx0 <= MAX_PROTOCOL_MESSAGE /\ log[1][j].ndx1 <= MAX_PROTOCOL_MESSAGE

----------------------------------------------------------------------------
\* C2 (Spec): while the receiver is RECEIVED, a receiveFrame call, whatever
\* bytes are available, leaves machState, receivedChars and ndx as they are;
\* only the owner's reset ends this.
C2_CompleteIsNoOp ==
    [][(machState[1] = RECEIVED /\ lastOp'.op = "receiveFrame")
         => (machState'[1] = RECEIVED /\ receivedChars'[1] = receivedChars[1] /\ ndx' = ndx)]_vars

\* a receiveFrame call was made on a completed, non-empty frame with bytes
\* available, and read none of them
C2_Witness ==
    /\ machState[1] = RECEIVED
    /\ lastOp.op = "receiveFrame" /\ lastOp.idle
    /\ Len(serialIn) > 0
    /\ Len(CStr(receivedChars[1])) > 0

----------------------------------------------------------------------------
\* SpecRT: the whole frame written by the one sendFrame call has been
\* delivered and polled, and the receiver has read all of it or has stopped
\* at a completed frame.
RTDone ==
    /\ lastOp.op = "receiveFrame"
    /\ Len(serialOut) > 0
    /\ wire = <<>>
    /\ (serialIn = <<>> \/ machState[1] = RECEIVED)

\* C3 (SpecRT): a message P without reserved bytes and shorter than
\* MAX_PROTOCOL_MESSAGE, framed by sendFrame and fed to a receiver in START,
\* leaves it RECEIVED with receivedChars holding P and its terminator.
C3_RoundTripPlain ==
    (RTDone /\ ~HasReserved(message) /\ Len(message) < MAX_PROTOCOL_MESSAGE)
      => (machState[1] = RECEIVED /\ CStr(receivedChars[1]) = message)

\* C4 (SpecRT): a message P with reserved bytes whose escaped form is no
\* longer than MAX_PROTOCOL_MESSAGE, framed by sendFrame and fed to a receiver
\* in START, leaves it RECEIVED with receivedChars holding P.
C4_RoundTripReserved ==
    (RTDone /\ HasReserved(message) /\ Len(Escaped(message)) <= MAX_PROTOCOL_MESSAGE)
      => (machState[1] = RECEIVED /\ CStr(receivedChars[1]) = message)

\* what a receiver has decoded: the string in the buffer once RECEIVED, the
\* bytes below the cursor before that
Decoded(ms, n, buf) == IF ms = RECEIVED THEN CStr(buf) ELSE [k \in 1..n |-> buf[k - 1]]

\* the state a fresh receiver is left in by one receiveFrame call that finds
\* all of `in` available
SingleCall(in, fill) ==
    ReceiveLoop([machState |-> START, ndx |-> 0, receivedChars |-> [k \in BufIndex |-> fill], sendChars |-> sendChars[1], stray |-> FALSE],
                in, 1, Len(in), "memory").st

\* C5 (SpecRT): however the frame is split into chunks over receiveFrame calls,
\* calls that find nothing included, the receiver ends in the state, with the
\* cursor and with the decoded bytes that one call reading the whole frame gives.
C5_ChunkIndependence ==
    RTDone =>
      \A fill \in InitFill :
        /\ machState[1] = SingleCall(serialOut, fill).machState
        /\ ndx = SingleCall(serialOut, fill).ndx
        /\ Decoded(machState[1], ndx, receivedChars[1])
             = Decoded(SingleCall(serialOut, fill).machState, SingleCall(serialOut, fill).ndx, SingleCall(serialOut, fill).receivedChars)

\* a frame with an escaped byte, near the longest, was read in several chunks
\* and completed; the last call found nothing to read
C5_Witness ==
    /\ RTDone
    /\ nEvents = ChunkCap
    /\ lastOp.idle
    /\ machState[1] = RECEIVED
    /\ HasReserved(message)
    /\ Len(message) >= MAX_STRING
    /\ CStr(receivedChars[1]) = message

----------------------------------------------------------------------------
\* C6 (SpecSend): for a message of any length sendFrame stores only inside
\* sendChars, and the buffer then holds a string that starts with '<' and ends
\* with '>' followed by the terminator; that string is what is written.
C6_SendStaysInBuffer ==
    lastOp.op = "sendFrame" =>
      /\ ~stray
      /\ Terminated(sendChars[1])
      /\ StrLen(sendChars[1]) >= 2
      /\ sendChars[1][0] = LT
      /\ sendChars[1][StrLen(sendChars[1]) - 1] = GT
      /\ serialOut = CStr(sendChars[1])

\* a message longer than the buffer was sent and the frame fills the buffer
C6_Witness ==
    /\ lastOp.op = "sendFrame"
    /\ Len(message) > MAX_PROTOCOL_MESSAGE + 1
    /\ StrLen(sendChars[1]) = MAX_PROTOCOL_MESSAGE
    /\ sendChars[1][MAX_PROTOCOL_MESSAGE] = NUL

\* C7 (SpecSend): the bytes sendFrame puts between '<' and '>' are the escaped
\* form of a prefix of the message: every reserved byte of the prefix preceded
\* by the escape byte, every other byte as it is, and no escape byte left
\* without the byte it escapes.
C7_BodyIsEscapedPrefix ==
    lastOp.op = "sendFrame" =>
      \E n \in 0..Len(message) :
        SubSeq(serialOut, 2, Len(serialOut) - 1) = Escaped(SubSeq(message, 1, n))

----------------------------------------------------------------------------
\* C8 (Spec): a '<' read in RECEIVING, whatever partial payload is stored,
\* puts the cursor back to 0 and leaves the state RECEIVING; and when that '<'
\* is followed by a payload Y without reserved bytes and by '>', the receiver
\* is RECEIVED with receivedChars holding exactly Y.
C8_RestartOnStartMarker ==
    \A j \in 1..Len(log[1]) :
      (log[1][j].from = RECEIVING /\ log[1][j].rc = LT) =>
        /\ log[1][j].ndx1 = 0
        /\ log[1][j].to = RECEIVING
        /\ (/\ j < Len(log[1])
            /\ log[1][Len(log[1])].rc = GT
            /\ \A k \in (j + 1)..(Len(log[1]) - 1) : log[1][k].rc \notin Reserved)
           => (/\ machState[1] = RECEIVED
               /\ CStr(receivedChars[1]) = SubSeq(Fed(1), j + 1, Len(log[1]) - 1))

\* "<a<a>" was read: the partial payload "a" was dropped and "a" decoded
C8_Witness ==
    /\ Fed(1) = <<LT, 97, LT, 97, GT>>
    /\ log[1][3].ndx0 = 1
    /\ machState[1] = RECEIVED
    /\ CStr(receivedChars[1]) = <<97>>

----------------------------------------------------------------------------
\* C9 (Spec): the escape byte read in RECEIVING and followed by a byte that is
\* not reserved stores neither byte: after the two, receivedChars and ndx are as
\* before them and the state is RECEIVING again; so "<\\aa>" decodes to "a".
C9_InvalidEscapeDropped ==
    /\ \A j \in 1..(Len(log[1]) - 1) :
         (log[1][j].from = RECEIVING /\ log[1][j].rc = BSL /\ log[1][j + 1].rc \notin Reserved) =>
           /\ log[1][j].same /\ log[1][j + 1].same
           /\ log[1][j].ndx1 = log[1][j].ndx0 /\ log[1][j + 1].ndx1 = log[1][j].ndx0
           /\ log[1][j + 1].from = ESCAPE
           /\ log[1][j + 1].to = RECEIVING
    /\ Fed(1) = <<LT, BSL, 97, 97, GT>> => (machState[1] = RECEIVED /\ CStr(receivedChars[1]) = <<97>>)

\* "<a\\a" was read: the cursor is 1, the state RECEIVING, the buffer starts with "a"
C9_Witness ==
    /\ Fed(1) = <<LT, 97, BSL, 97>>
    /\ machState[1] = RECEIVING
    /\ ndx = 1
    /\ receivedChars[1][0] = 97

----------------------------------------------------------------------------
\* C10 as claimed (Spec): whatever was read before and whichever of START,
\* RECEIVING, ESCAPE the receiver is in, reading a well-formed frame
\* '<' escaped(P) '>' leaves it RECEIVED with receivedChars holding exactly P.
C10_ResyncFromAnyState ==
    \A P \in Payloads :
      (ReadEndMarker /\ FedEndsWith(Frame(P))) => (machState[1] = RECEIVED /\ CStr(receivedChars[1]) = P)

\* C10 amended (Spec): the same from START and RECEIVING; from ESCAPE the
\* frame's '<' is stored as an escaped literal, and the completed buffer is the
\* partial payload, '<', then P.
C10_ResyncFromStartOrReceiving ==
    \A P \in Payloads :
      (ReadEndMarker /\ FedEndsWith(Frame(P))) =>
        LET first == log[1][Len(log[1]) - Len(Frame(P)) + 1]
        IN  /\ machState[1] = RECEIVED
            /\ first.from \in {START, RECEIVING} => CStr(receivedChars[1]) = P
            /\ first.from = ESCAPE =>
                  /\ Len(CStr(receivedChars[1])) = first.ndx0 + 1 + Len(P)
                  /\ EndsWith(CStr(receivedChars[1]), <<LT>> \o P)

\* "<" then the frame "<\\<>" was read: the interrupted frame is dropped and "<" decoded
C10_Witness ==
    /\ Fed(1) = <<LT, LT, BSL, LT, GT>>
    /\ machState[1] = RECEIVED
    /\ CStr(receivedChars[1]) = <<LT>>

----------------------------------------------------------------------------
\* SpecDuplex: the owner of one object polls the receiver, sends frames of its
\* own between the polls and may reset the receiver, while the peer sends
\* arbitrary single bytes.

\* single bytes the peer sends in SpecDuplex
MaxDuplex == 3

ArriveDuplex == \E b \in Alphabet : nEvents < MaxDuplex /\ Arrive(b)

\* what the owner sends: a short message with a reserved byte, and one that
\* sendFrame has to truncate
DuplexMessages == {<<98, GT>>, Pad(MAX_PROTOCOL_MESSAGE + 2)}

OwnerSend ==
    \E msg \in DuplexMessages :
        /\ sendFrame(1, msg)
        /\ UNCHANGED <<wire, nEvents, nRuns, nResets>>

NextDuplex ==
    \/ ArriveDuplex
    \/ Poll
    \/ OwnerSend
    \/ OwnerReset

SpecDuplex == Init /\ [][NextDuplex]_vars

----------------------------------------------------------------------------
\* C11 (SpecDuplex): once machState is RECEIVED no receiveFrame call and no
\* sendFrame call, whatever bytes are available and whatever the message,
\* moves it to another state; the only step that leaves RECEIVED is the
\* owner's reset, and it leaves the receiver in START.
C11_NeverSelfResets ==
    [][/\ (machState[1] = RECEIVED /\ lastOp'.op \in {"receiveFrame", "sendFrame"}) => machState'[1] = RECEIVED
       /\ (machState[1] = RECEIVED /\ machState'[1] # RECEIVED) => (lastOp'.op = "reset" /\ machState'[1] = START)]_vars

\* a frame was sent while the receiver was RECEIVED with bytes waiting, after
\* an earlier reset
C11_Witness ==
    /\ machState[1] = RECEIVED
    /\ lastOp.op = "sendFrame"
    /\ Len(message) > 0
    /\ Len(serialIn) > 0
    /\ nResets > 0


----------------------------------------------------------------------------
\* SpecStream: the peer sends a stream holding two frames with bytes that
\* belong to no frame before each; the stream reaches the Serial input in
\* chunks, the owner polls and, once a frame is complete, resets the receiver.

\* "12,Hello"
Payload1 == <<49, 50, 44, 72, 101, 108, 108, 111>>

\* "34,Bye>"
Payload2 == <<51, 52, 44, 66, 121, 101, GT>>

\* what comes before the first frame: "garbage", nothing, ">\\" (an end
\* marker and an escape byte with no frame open), "x<y" (a frame cut short)
Garbage1 == {<<103, 97, 114, 98, 97, 103, 101>>, <<>>, <<GT, BSL>>, <<120, LT, 121>>}

\* what comes between the frames: "more", nothing, "\\>", "<y"
Garbage2 == {<<109, 111, 114, 101>>, <<>>, <<BSL, GT>>, <<LT, 121>>}

Streams == {g1 \o Frame(Payload1) \o g2 \o Frame(Payload2) : g1 \in Garbage1, g2 \in Garbage2}

InitStream ==
    /\ \E fill \in InitFill : Constructed(fill)
    /\ wire \in Streams
    /\ message = <<>>

\* the owner has seen RECEIVED, takes the buffer and resets the receiver
ConsumeReset ==
    /\ machState[1] = RECEIVED
    /\ Reset(1)
    /\ nResets' = nResets + 1
    /\ UNCHANGED <<nEvents, nRuns>>

NextStream ==
    \/ Deliver
    \/ Poll
    \/ ConsumeReset

SpecStream == InitStream /\ [][NextStream]_vars

\* frames completed so far: those the owner has consumed and the one waiting
Completions == nResets + (IF machState[1] = RECEIVED THEN 1 ELSE 0)

----------------------------------------------------------------------------
\* SpecTwo: a sketch with two SerialProtocol objects; both poll the one Serial
\* input, in any order, while the peer sends arbitrary single bytes.

\* single bytes the peer sends in SpecTwo
MaxShared == 4

ArriveShared == \E b \in Alphabet : nEvents < MaxShared /\ Arrive(b)

\* loop() polls the second object
Poll2 == receiveFrame(2)

NextTwo ==
    \/ ArriveShared
    \/ Poll
    \/ Poll2

SpecTwo == Init /\ [][NextTwo]_vars

\* C13 (SpecTwo): a receiveFrame call on the second object leaves the first
\* object's machState and receivedChars as they are, and leaves the cursor of
\* the frame the first object is assembling where it was.
C13_InstancesIndependent ==
    [][(lastOp'.op = "receiveFrame" /\ lastOp'.self = 2) =>
         /\ machState'[1] = machState[1]
         /\ receivedChars'[1] = receivedChars[1]
         /\ machState[1] \in {RECEIVING, ESCAPE} => ndx' = ndx]_vars


----------------------------------------------------------------------------
\* C14 (SpecDuplex): a sendFrame call, whatever the message and whatever the
\* receiver is doing, leaves machState, receivedChars, the cursor and the Serial
\* input as they are; and with sendFrame calls between the receiveFrame calls
\* the receiver is, after the bytes it has read, in the state, at the cursor and
\* with the decoded bytes of a receiver that read them with no call in between.
\* (A step that leaves nEvents alone is not an arrival.)
C14_SendLeavesReceiver ==
    /\ [][(lastOp'.op = "sendFrame" /\ nEvents' = nEvents) =>
            (machState' = machState /\ receivedChars' = receivedChars /\ ndx' = ndx /\ serialIn' = serialIn)]_vars
    /\ [](\A fill \in InitFill :
            /\ machState[1] = SingleCall(Fed(1), fill).machState
            /\ machState[1] # START =>
                  /\ ndx = SingleCall(Fed(1), fill).ndx
                  /\ Decoded(machState[1], ndx, receivedChars[1])
                       = Decoded(machState[1], ndx, SingleCall(Fed(1), fill).receivedChars))

\* a message that had to be truncated was sent while a frame was being
\* received, one payload byte stored
C14_Witness ==
    /\ lastOp.op = "sendFrame"
    /\ Len(message) > MAX_PROTOCOL_MESSAGE
    /\ machState[1] = RECEIVING
    /\ ndx = 1
    /\ Fed(1) = <<LT, 97>>


----------------------------------------------------------------------------
\* frame.cpp: the transliteration table and removeAccentMarker

\* const unsigned char win1252_to_ascii[256]; entry b of the array is element
\* b + 1 of the tuple.
win1252_to_ascii ==
  <<
    \* 0x00-0x0F
    0, 1, 2, 3, 4, 5, 6, 7, 8, 9, 10, 11, 12, 13, 14, 15,
    \* 0x10-0x1F
    16, 17, 18, 19, 20, 21, 22, 23, 24, 25, 26, 27, 28, 29, 30, 31,
    \* 0x20-0x2F
    32, 33, 34, 35, 36, 37, 38, 39, 40, 41, 42, 43, 44, 45, 46, 47,
    \* 0x30-0x3F
    48, 49, 50, 51, 52, 53, 54, 55, 56, 57, 58, 59, 60, 61, 62, 63,
    \* 0x40-0x4F
    64, 65, 66, 67, 68, 69, 70, 71, 72, 73, 74, 75, 76, 77, 78, 79,
    \* 0x50-0x5F
    80, 81, 82, 83, 84, 85, 86, 87, 88, 89, 90, 91, 92, 93, 94, 95,
    \* 0x60-0x6F
    96, 97, 98, 99, 100, 101, 102, 103, 104, 105, 106, 107, 108, 109, 110, 111,
    \* 0x70-0x7F
    112, 113, 114, 115, 116, 117, 118, 119, 120, 121, 122, 123, 124, 125, 126, 127,
    \* 0x80-0x8F
    128, 129, 130, 131, 132, 133, 134, 135, 136, 137, 138, 139, 140, 141, 142, 143,
    \* 0x90-0x9F
    144, 145, 146, 147, 148, 149, 150, 151, 152, 153, 154, 155, 156, 157, 158, 159,
    \* 0xA0-0xAF
    160, 161, 162, 163, 164, 165, 166, 167, 168, 169, 170, 171, 172, 173, 174, 175,
    \* 0xB0-0xBF
    176, 177, 178, 179, 180, 181, 182, 183, 184, 185, 186, 187, 188, 189, 190, 191,
    \* 0xC0-0xCF
    65, 65, 65, 65, 65, 65, 65, 67, 69, 69, 69, 69, 73, 73, 73, 73,
    \* 0xD0-0xDF
    68, 78, 79, 79, 79, 79, 79, 79, 85, 85, 85, 85, 89, 80, 66, 223,
    \* 0xE0-0xEF
    97, 97, 97, 97, 97, 97, 97, 99, 101, 101, 101, 101, 105, 105, 105, 105,
    \* 0xF0-0xFF
    100, 110, 111, 111, 111, 111, 111, 111, 117, 117, 117, 117, 121, 112, 98, 121
  >>

\* Variant of Translit: 0xC0 is mapped to 0xE0, an entry the table maps on.
TranslitChained(b) == IF b = 192 THEN 224 ELSE win1252_to_ascii[b + 1]

\* win1252_to_ascii[ (unsigned char) str[i] ]
Translit(b) == win1252_to_ascii[b + 1]

\* strlen(str), for a string held in the sequence str: the bytes before the
\* first '\0', or all of them
SeqStrLen(str) ==
    IF \E k \in 1..Len(str) : str[k] = NUL
      THEN (CHOOSE k \in 1..Len(str) : str[k] = NUL /\ \A j \in 1..(k - 1) : str[j] # NUL) - 1
      ELSE Len(str)

\* for (int i = 0; i < strlen(str); i++) str[i] = win1252_to_ascii[...];
\* strlen is taken again at every pass.
RECURSIVE AccentLoop(_, _)
AccentLoop(str, i) ==
    IF i < SeqStrLen(str)
      THEN AccentLoop([str EXCEPT ![i + 1] = Translit(str[i + 1])], i + 1)
      ELSE str

\* void SerialProtocol::removeAccentMarker(char *str), on the owner's string
\* held in `message`; idle tells that no byte changed.
removeAccentMarker(self) ==
    /\ message' = AccentLoop(message, 0)
    /\ lastOp' = [op |-> "removeAccentMarker", self |-> self, idle |-> message' = message]
    /\ UNCHANGED <<machState, receivedChars, sendChars, ndx, stray, serialIn, serialOut, wire, log>>

----------------------------------------------------------------------------
\* SpecTable: the owner holds a string and applies removeAccentMarker to it,
\* once or again.

Bytes == 0..(ByteMod - 1)

\* most applications of removeAccentMarker to one string
MaxApply == 2

\* the strings: every non-zero byte alone, and pairs of accented and plain bytes
TableStrings == {<<b>> : b \in Bytes \ {NUL}} \cup {<<b, c>> : b \in {231, 65}, c \in {227, 223, 98}}

InitTable ==
    /\ \E fill \in InitFill : Constructed(fill)
    /\ wire = <<>>
    /\ message \in TableStrings

ApplyTable ==
    /\ nRuns < MaxApply
    /\ removeAccentMarker(1)
    /\ nRuns' = nRuns + 1
    /\ UNCHANGED <<nEvents, nResets>>

NextTable == ApplyTable

SpecTable == InitTable /\ [][NextTable]_vars

\* C15 (SpecTable): every byte value 0..255 has an entry in the table and the
\* entry is a byte; the entry of an entry is that entry; no byte but 0 has the
\* entry 0.  So removeAccentMarker replaces every byte of a string by its
\* entry, keeps the length of the string, and applied again changes nothing.
C15_TableTotalIdempotent ==
    /\ [](/\ Len(win1252_to_ascii) = ByteMod
          /\ \A b \in Bytes : Translit(b) \in Bytes
          /\ \A b \in Bytes : Translit(Translit(b)) = Translit(b)
          /\ \A b \in Bytes \ {NUL} : Translit(b) # NUL
          /\ lastOp.op = "removeAccentMarker" => AccentLoop(message, 0) = message)
    /\ [][lastOp'.op = "removeAccentMarker" =>
            /\ Len(message') = Len(message)
            /\ SeqStrLen(message') = SeqStrLen(message)
            /\ \A k \in 1..Len(message) : message'[k] = Translit(message[k])
            /\ lastOp.op = "removeAccentMarker" => message' = message]_vars

\* "\347\343" (c cedilla, a tilde) has become "ca", and was transliterated again
C15_Witness ==
    /\ lastOp.op = "removeAccentMarker"
    /\ nRuns = MaxApply
    /\ lastOp.idle
    /\ message = <<99, 97>>


----------------------------------------------------------------------------
\* The transition table of the receiver: the state after reading byte b in state ms.
TableNext(ms, b) ==
    CASE ms = START     -> IF b = LT THEN RECEIVING ELSE START
      [] ms = RECEIVING -> (CASE b = LT  -> RECEIVING
                              [] b = GT  -> RECEIVED
                              [] b = BSL -> ESCAPE
                              [] OTHER   -> RECEIVING)
      [] ms = ESCAPE    -> RECEIVING
      [] OTHER          -> RECEIVED

\* what the table says of the buffer and cursor for byte b read in state st
TableEffect(st, b, nx) ==
    /\ st.machState = START => nx.receivedChars = st.receivedChars
    /\ (st.machState = RECEIVING /\ b \in {LT, BSL}) => nx.receivedChars = st.receivedChars
    /\ (st.machState = RECEIVING /\ b = GT) => nx.receivedChars = [st.receivedChars EXCEPT ![st.ndx] = NUL]
    /\ (st.machState = RECEIVING /\ b \notin Reserved) =>
          (nx.receivedChars = [st.receivedChars EXCEPT ![st.ndx] = b] /\ nx.ndx = st.ndx + 1)
    /\ (st.machState = ESCAPE /\ b \in Reserved) =>
          (nx.receivedChars = [st.receivedChars EXCEPT ![st.ndx] = b] /\ nx.ndx = st.ndx + 1)
    /\ (st.machState = ESCAPE /\ b \notin Reserved) =>
          (nx.receivedChars = st.receivedChars /\ nx.ndx = st.ndx)

\* C16 (Spec): a constructed receiver is in START; and whenever the receiver
\* has read all that arrived, whatever byte value comes next, the pass of the
\* loop for that byte gives the next state of the transition table and changes
\* the buffer as the table says: nothing in START, the terminator at the cursor
\* on '>' in RECEIVING, the byte appended in ESCAPE only when it is '<', '>' or
\* '\\'.  Every pass made so far went by the table too.
C16_TransitionTable ==
    /\ lastOp.op = "construct" => machState[1] = START
    /\ \A j \in 1..Len(log[1]) : log[1][j].to = TableNext(log[1][j].from, log[1][j].rc)
    /\ (machState[1] # RECEIVED /\ serialIn = <<>>) =>
          \A st \in {Recv(1)} : \A b \in Bytes : \A nx \in {Switch(st, b, "memory")} :
            /\ nx.machState = TableNext(st.machState, b)
            /\ TableEffect(st, b, nx)

\* "a<\\>>" was read: a byte skipped in START, a frame opened, an escaped '>'
\* appended, the frame closed with "\>" decoded as ">"
C16_Witness ==
    /\ Fed(1) = <<97, LT, BSL, GT, GT>>
    /\ machState[1] = RECEIVED
    /\ CStr(receivedChars[1]) = <<GT>>


----------------------------------------------------------------------------
\* the pass that opened the frame being received or just completed: the last
\* '<' read in START or RECEIVING
OwnStart(j) ==
    /\ log[1][j].rc = LT /\ log[1][j].from \in {START, RECEIVING}
    /\ \A k \in (j + 1)..Len(log[1]) : ~(log[1][k].rc = LT /\ log[1][k].from \in {START, RECEIVING})

\* C17 (Spec): after a reset by the owner, made in whatever state, a frame
\* that completes holds what a fresh receiver decodes from the bytes read since
\* the reset, and what it decodes from that frame's own '<' on: nothing of the
\* frame the reset abandoned is in it.
C17_ResetAbandonsFrame ==
    (nResets > 0 /\ machState[1] = RECEIVED) =>
      /\ Len(log[1]) >= 2
      /\ \A fill \in InitFill :
            /\ SingleCall(Fed(1), fill).machState = RECEIVED
            /\ CStr(receivedChars[1]) = CStr(SingleCall(Fed(1), fill).receivedChars)
      /\ \E j \in 1..Len(log[1]) :
            /\ OwnStart(j)
            /\ \A fill \in InitFill :
                  CStr(receivedChars[1]) = CStr(SingleCall(SubSeq(Fed(1), j, Len(log[1])), fill).receivedChars)

\* "<aa" was read, the owner reset the receiver, "<>" was read: the frame is
\* empty, the second 'a' of the abandoned one still lies behind the terminator
C17_Witness ==
    /\ nResets = 1
    /\ machState[1] = RECEIVED
    /\ Fed(1) = <<LT, GT>>
    /\ CStr(receivedChars[1]) = <<>>
    /\ receivedChars[1][1] = 97


----------------------------------------------------------------------------
\* the number of bytes the step read for instance 1
ReadByStep == Len(log'[1]) - Len(log[1])

\* C18 (Spec): a receiveFrame call reads the bytes of the Serial input in
\* order, and stops before the input is empty only when the frame is complete;
\* the '>' that completes a frame is the last byte the call reads; the bytes
\* after it stay in the input as they were, and while the receiver is RECEIVED
\* no call reads any of them.  (A step that leaves nEvents alone is not an
\* arrival.)
C18_ReadsOnlyUntilComplete ==
    [][(lastOp'.op = "receiveFrame" /\ nEvents' = nEvents) =>
         /\ ReadByStep >= 0 /\ ReadByStep <= Len(serialIn)
         /\ \A j \in 1..ReadByStep : log'[1][Len(log[1]) + j].rc = serialIn[j]
         /\ serialIn' = SubSeq(serialIn, ReadByStep + 1, Len(serialIn))
         /\ machState[1] = RECEIVED => ReadByStep = 0
         /\ ReadByStep < Len(serialIn) => machState'[1] = RECEIVED
         /\ (machState'[1] = RECEIVED /\ ReadByStep > 0) =>
               /\ log'[1][Len(log'[1])].rc = GT
               /\ log'[1][Len(log'[1])].to = RECEIVED
               /\ \A j \in 1..(ReadByStep - 1) : log'[1][Len(log[1]) + j].to # RECEIVED]_vars

\* a call read "<a>" and returned with two more bytes left in the input
C18_Witness ==
    /\ machState[1] = RECEIVED
    /\ lastOp.op = "receiveFrame" /\ ~lastOp.idle
    /\ Fed(1) = <<LT, 97, GT>>
    /\ Len(serialIn) = 2


----------------------------------------------------------------------------
\* SpecStep: receiveFrame pass by pass.  A call is entered, makes one pass of
\* its while loop at a time and returns when the loop condition fails; bytes
\* arrive only between calls.  While a call runs, lastOp.op is
\* "receiveFrame.loop" and lastOp.idle tells that no pass was made yet.

\* single bytes the peer sends in SpecStep
MaxStep == 4

\* Variant of SerialRead: the byte is looked at and left in the input.
SerialPeek(in) == in

\* what rc = Serial.read() leaves in the input
SerialRead(in) == Tail(in)

InCall == lastOp.op = "receiveFrame.loop"

ArriveBetween == \E b \in Alphabet : ~InCall /\ nEvents < MaxStep /\ Arrive(b)

\* loop() calls receiveFrame
CallReceive ==
    /\ ~InCall
    /\ lastOp' = [op |-> "receiveFrame.loop", self |-> 1, idle |-> TRUE]
    /\ UNCHANGED <<machState, receivedChars, sendChars, ndx, stray, serialIn, serialOut, wire, message, log, nEvents, nRuns, nResets>>

\* the loop condition holds: rc = Serial.read(); switch (machState) ...
LoopPass ==
    /\ InCall
    /\ LoopCond(Recv(1), Len(serialIn))
    /\ \E oob \in OobOutcomes :
         \E r \in {Iterate([Recv(1) EXCEPT !.ndx = StaticNdx(ndx)], Head(serialIn), Len(serialIn), oob)} :
             /\ machState' = [machState EXCEPT ![1] = r.st.machState]
             /\ receivedChars' = [receivedChars EXCEPT ![1] = r.st.receivedChars]
             /\ sendChars' = [sendChars EXCEPT ![1] = r.st.sendChars]
             /\ ndx' = r.st.ndx
             /\ stray' = r.st.stray
             /\ log' = [log EXCEPT ![1] = @ \o r.log]
    /\ serialIn' = SerialRead(serialIn)
    /\ lastOp' = [lastOp EXCEPT !.idle = FALSE]
    /\ UNCHANGED <<serialOut, wire, message, nEvents, nRuns, nResets>>

\* the loop condition fails: the call returns
LoopExit ==
    /\ InCall
    /\ ~LoopCond(Recv(1), Len(serialIn))
    /\ lastOp' = [lastOp EXCEPT !.op = "receiveFrame"]
    /\ UNCHANGED <<machState, receivedChars, sendChars, ndx, stray, serialIn, serialOut, wire, message, log, nEvents, nRuns, nResets>>

NextStep ==
    \/ ArriveBetween
    \/ CallReceive
    \/ LoopPass
    \/ LoopExit

\* a call that has been entered goes on: the processor runs the loop
SpecStep == Init /\ [][NextStep]_vars /\ WF_vars(LoopPass) /\ WF_vars(LoopExit)

\* C19 (SpecStep): every receiveFrame call returns.  Every pass of its loop
\* takes one byte from the input, so with no byte arriving during the call it
\* makes at most as many passes as bytes were available, whatever the state
\* and whether or not a frame gets complete; entered with no byte available,
\* the call returns at its next step with machState, receivedChars and the
\* cursor unchanged.
C19_CallTerminates ==
    /\ InCall ~> (lastOp.op = "receiveFrame")
    /\ [](Len(log[1]) + Len(serialIn) = nEvents)
    /\ [][InCall =>
            \/ /\ lastOp'.op = "receiveFrame.loop"
               /\ Len(serialIn) > 0
               /\ Len(serialIn') = Len(serialIn) - 1
               /\ Len(log'[1]) = Len(log[1]) + 1
            \/ /\ lastOp'.op = "receiveFrame"
               /\ UNCHANGED <<machState, receivedChars, ndx, serialIn, log>>]_vars
    /\ [][(InCall /\ serialIn = <<>>) =>
            (lastOp'.op = "receiveFrame" /\ UNCHANGED <<machState, receivedChars, ndx>>)]_vars

\* a call read the three bytes available, "<a\\", and returned with the
\* frame open in ESCAPE
C19_Witness ==
    /\ lastOp.op = "receiveFrame" /\ ~lastOp.idle
    /\ machState[1] = ESCAPE
    /\ Fed(1) = <<LT, 97, BSL>>
    /\ serialIn = <<>>
    /\ nEvents = 3


----------------------------------------------------------------------------
\* the sequence s is the first Len(s) elements of the sequence t
IsPrefix(s, t) == Len(s) <= Len(t) /\ SubSeq(t, 1, Len(s)) = s

\* C20 (SpecRT): for every message, the truncated ones included, a receiver in
\* START that has read the frame sendFrame wrote is RECEIVED and holds a prefix
\* of the message; the '>' closing the frame was read in RECEIVING, as the end
\* of the frame, and not in ESCAPE as a literal.
C20_FrameAlwaysCompletes ==
    RTDone =>
      /\ machState[1] = RECEIVED
      /\ IsPrefix(CStr(receivedChars[1]), message)
      /\ log[1][Len(log[1])].rc = GT /\ log[1][Len(log[1])].from = RECEIVING


============================================================================
